---- MODULE Spec2Model ----
(***************************************************************************)
(* Ghost kart replay playback (src/karts/ghost_kart.cpp).                  *)
(*                                                                         *)
(* A GhostKart owns three parallel arrays of recorded frames (transform,   *)
(* physics sample, event flags) and is driven by a GhostController, the    *)
(* playback cursor, which maps elapsed time to a frame index, an           *)
(* interpolation fraction and an end-of-replay flag.                       *)
(*                                                                         *)
(* Number representation.  The code computes in float; the model computes  *)
(* the same expressions exactly, in fixed point:                           *)
(*   - the interpolation fraction rd is delta / RdDen, delta \in 0..RdDen-1*)
(*   - positions set by setXYZ are kept in units of 1 / RdDen              *)
(*   - orientations are rotations about the up axis, an angle counted in   *)
(*     1/Turn of a full turn; orientations set by setRotation are kept in  *)
(*     units of 1 / (Turn * RdDen) of a full turn                          *)
(*   - the nitro fraction is kept in units of 1 / EngineMaxSpeed           *)
(*   - the graphical y offset is kept in units of 1 / 4                    *)
(*   - the front offset getKartLength()*0.5 is kept in units of 1 / 2      *)
(***************************************************************************)
EXTENDS Integers, Sequences, FiniteSets, TLC

\* ------------------------------------------------------------------ bounds
\* Largest number of frames addReplayEvent is called for.
MaxFrames == 3
\* Largest time step handed to update(dt), in clock ticks.
MaxDt == 2
\* Resolution of the interpolation fraction: rd = delta / RdDen.
RdDen == 2
\* Largest value of the max_players spinner of the create-server screen.
MaxPlayers == 3
\* Number of distinct yaw angles in one full turn.
Turn == 4

\* --------------------------------------------------- kart model parameters
\* m_kart_properties->getEngineMaxSpeed()
EngineMaxSpeed == 25
\* getKartModel()->getLowestPoint(), in units of 1/4
LowestPoint4 == -2
\* getKartLength()
KartLength == 3

\* Cursor time never has to pass the last possible frame time.
MaxTime == MaxFrames * RdDen

\* ----------------------------------------------------------------- inputs
\* Frame time gaps: the divisors of RdDen, so that every reachable fraction
\* is a multiple of 1 / RdDen.
FrameGaps == {g \in 1..RdDen : RdDen % g = 0}

\* The recorded frames addReplayEvent is called with: a transform (origin,
\* yaw), a PhysicInfo (speed, steer, four suspension lengths) and a
\* KartReplayEvent (nitro and zipper flags).
SampleFrames ==
  { [trans |-> [origin |-> <<0, 0, 0>>, rotation |-> 0],
     pi    |-> [m_speed |-> 5, m_steer |-> 0,
                m_suspension_length |-> <<1, 1, 1, 1>>],
     kre   |-> [m_on_nitro |-> FALSE, m_on_zipper |-> FALSE]],
    [trans |-> [origin |-> <<10, 0, 0>>, rotation |-> 1],
     pi    |-> [m_speed |-> 7, m_steer |-> 1,
                m_suspension_length |-> <<2, 2, 2, 2>>],
     kre   |-> [m_on_nitro |-> TRUE, m_on_zipper |-> FALSE]],
    [trans |-> [origin |-> <<4, -2, 6>>, rotation |-> Turn - 1],
     pi    |-> [m_speed |-> -30, m_steer |-> -1,
                m_suspension_length |-> <<1, 2, 3, 2>>],
     kre   |-> [m_on_nitro |-> TRUE, m_on_zipper |-> TRUE]] }

\* What a read past the end of m_all_transform can yield.
GarbageTransforms ==
  { [origin |-> <<-7, 9, 1>>, rotation |-> 2 % Turn],
    [origin |-> <<0, 0, 0>>, rotation |-> 0] }

\* ---------------------------------------------------------------- helpers
\* C++ containers are indexed from 0.
At(seq, i) == seq[i + 1]
Size(seq) == Len(seq)

Abs(x) == IF x < 0 THEN -x ELSE x

NoCall == <<>>
NoRet == <<>>
NoOut == [kind |-> "none"]
Skipped == [kind |-> "skipped"]

VARIABLES
  m_all_transform,       \* std::vector<btTransform>
  m_all_physic_info,     \* std::vector<ReplayBase::PhysicInfo>
  m_all_replay_events,   \* std::vector<ReplayBase::KartReplayEvent>
  m_graphical_y_offset,  \* baseline offset, units of 1/4
  gc,                    \* the GhostController (playback cursor)
  m_visible,             \* m_node->isVisible(): Active (TRUE) / Ended (FALSE)
  m_xyz,                 \* position set by setXYZ, units of 1/RdDen
  m_rotation,            \* orientation set by setRotation, 1/(Turn*RdDen) turn
  m_nitro_frac,          \* value last given to updateNitroGraphics
  m_center_shift,        \* offset last given to Moveable::updateGraphics
  m_xyz_front,           \* front reference point
  zipper_fired,          \* showZipperFire() was called by the last call
  anim,                  \* arguments of KartModel::update in the last call
  speed_ret,             \* value returned by the last getSpeed()
  fault,                 \* "none", "assert" (assertion failed), "segv"
                         \* (crash), "ub" (went on with what an out-of-bounds
                         \* read returned; the run is followed no further)
  oob_read,              \* some vector was read outside its bounds
  ndebug,                \* the values of NDEBUG with which the run so far is
                         \* possible: TRUE (assert() expands to nothing),
                         \* FALSE (assert() aborts on a false condition)
  lastOp,                \* the call that produced this state
  pre_visible,           \* m_visible before that call
  first_out,             \* outputs of the first update after construction
  zipper_run,            \* showZipperFire() calls in the unbroken run of
                         \* firing ticks up to the last call, at most MaxRun
  gc_log,                \* the update and reset calls the last call made on
                         \* the controller, in order
  tick_dt,               \* dt of the update() the last call ran, else 0
  n_added                \* the number of addReplayEvent calls so far

\* The material registry (MaterialManager) and what its callers hold.
VARIABLES
  m_materials,             \* std::vector<Material*>: [id, tex] per pointer
  m_shared_material_index, \* materials below this index are permanent
  index_set,               \* that member has been assigned
  m_freed,                 \* the materials deleted so far, and by which call
  perm_ret,                \* ids returned by getMaterial(.., make_permanent)
  temp_new,                \* ids of the materials in the vector that
                           \* getMaterial created without make_permanent
                           \* since the last loadMaterial, addSharedMaterial
                           \* or reInit
  mat_ret,                 \* pointer returned by the last registry call
  mat_op                   \* the registry call that produced this state

registry == <<m_materials, m_shared_material_index, index_set>>
matvars == <<registry, m_freed, perm_ret, temp_new, mat_ret, mat_op>>

\* The create-server screen (CreateServerScreen), its widgets and what it
\* starts.
VARIABLES
  m_prev_mode,            \* game mode remembered for the next init()
  m_prev_value,           \* value of the more-options spinner remembered
  m_supports_ai,          \* NetworkConfig::get()->isLAN() at init()
  m_max_players_widget,   \* value of the max_players spinner
  m_game_mode_widget,     \* selection of the gamemode ribbon
  m_more_options_spinner, \* [visible, value] of the more-options spinner
  m_info_widget,          \* text of the info label
  cfg_max_players,        \* UserConfigParams::m_max_players
  exist_host,             \* STKHost::existHost()
  joined_server,          \* name and privacy of the server given to
                          \* NetworkingLobby::setJoinedServer
  lobby_pushed,           \* NetworkingLobby::getInstance()->push() was called
  sp_args,                \* arguments of the SeparateProcess the last call
                          \* started
  in_name,                \* text of the name box read by the last call
  in_password,            \* text of the password box read by the last call
  screen_op               \* the screen call that produced this state

remembered == <<m_prev_mode, m_prev_value>>
widgets == <<m_max_players_widget, m_game_mode_widget, m_more_options_spinner,
             m_info_widget>>
network == <<exist_host, joined_server, lobby_pushed>>
screenvars == <<remembered, m_supports_ai, widgets, cfg_max_players, network,
                sp_args, in_name, in_password, screen_op>>

store == <<m_all_transform, m_all_physic_info, m_all_replay_events>>
pose == <<m_xyz, m_rotation>>
effects == <<m_nitro_frac, m_center_shift, m_xyz_front, zipper_fired, anim>>
hist == <<lastOp, pre_visible, first_out, zipper_run, gc_log, tick_dt,
          n_added>>
kartvars == <<store, m_graphical_y_offset, gc, m_visible, pose, effects,
              speed_ret, fault, oob_read, ndebug, hist>>
vars == <<kartvars, matvars, screenvars>>

\* ------------------------------------------- GhostController (the cursor)
\* karts/controller/ghost_controller.cpp: the replay times, the elapsed
\* time, the current frame index, the interpolation fraction towards the
\* next frame and the end-of-replay flag.
GcInit ==
  [m_all_times |-> <<>>, m_current_time |-> 0, m_current_index |-> 0,
   m_replay_delta |-> 0, m_replay_end |-> FALSE]

\* GhostController::addReplayTime
GcAddReplayTime(c, time) ==
  [c EXCEPT !.m_all_times = Append(@, time)]

\* GhostController::reset: back to frame 0, fraction 0, not ended.
GcReset(c) ==
  [c EXCEPT !.m_current_time = 0, !.m_current_index = 0,
            !.m_replay_delta = 0, !.m_replay_end = FALSE]

\* The last frame index whose successor's time has not been reached.
RECURSIVE GcNextIndex(_, _, _)
GcNextIndex(times, idx, t) ==
  IF idx + 1 < Size(times) /\ t >= At(times, idx + 1)
    THEN GcNextIndex(times, idx + 1, t)
    ELSE idx

\* GhostController::update(dt): advance the time, move the index, signal the
\* end when no frame follows the current one.  The end is terminal until
\* reset().
GcUpdate(c, dt) ==
  IF c.m_replay_end THEN c
  ELSE
    LET t   == c.m_current_time + dt
        i   == GcNextIndex(c.m_all_times, c.m_current_index, t)
        e   == i + 1 >= Size(c.m_all_times)
        rd  == IF e THEN 0
               ELSE ((t - At(c.m_all_times, i)) * RdDen)
                      \div (At(c.m_all_times, i + 1) - At(c.m_all_times, i))
    IN [c EXCEPT !.m_current_time = t, !.m_current_index = i,
                 !.m_replay_delta = rd, !.m_replay_end = e]

\* --------------------------------------------------------------- GhostKart
\* The fraction without the clamp to 1.
NitroFracNoClamp(kre, pi) ==
  IF kre.m_on_nitro THEN Abs(pi.m_speed) ELSE 0

\* The fraction computed whatever the nitro flag says.
NitroFracIgnoresFlag(kre, pi) ==
  IF Abs(pi.m_speed) > EngineMaxSpeed THEN EngineMaxSpeed
  ELSE Abs(pi.m_speed)

\* nitro_frac of update(): |speed| / max engine speed, clamped to 1, when the
\* frame has its nitro flag; 0 otherwise.  In units of 1 / EngineMaxSpeed.
NitroFrac(kre, pi) ==
  IF kre.m_on_nitro
    THEN LET f == Abs(pi.m_speed)
         IN IF f > EngineMaxSpeed THEN EngineMaxSpeed ELSE f
    ELSE 0

\* The weights of the two frames exchanged.
LerpSwapped(p0, p1, rd) ==
  [c \in 1..3 |-> rd * p0[c] + (RdDen - rd) * p1[c]]

\* (1 - rd) * p0 + rd * p1, componentwise, in units of 1 / RdDen.
Lerp(p0, p1, rd) ==
  [c \in 1..3 |-> (RdDen - rd) * p0[c] + rd * p1[c]]

\* btQuaternion::slerp for rotations about the up axis: the angle moves from
\* q0 towards q1 along the shorter arc.  In units of 1 / (Turn * RdDen) turn.
Slerp(q0, q1, rd) ==
  LET d  == (q1 - q0 + Turn) % Turn
      sd == IF 2 * d > Turn THEN d - Turn ELSE d
  IN (q0 * RdDen + rd * sd + Turn * RdDen) % (Turn * RdDen)

\* The default suspension: the mean of the first frame's four suspension
\* lengths, negated, plus the model's lowest point.  Written only by the
\* append that makes the size 1.  In units of 1 / 4.
RECURSIVE SumSeq(_)
SumSeq(s) == IF s = <<>> THEN 0 ELSE Head(s) + SumSeq(Tail(s))

\* The offset recomputed at every append, from the frame appended.
GraphicalYOffsetEveryAppend(infos, old) ==
  -SumSeq(At(infos, Size(infos) - 1).m_suspension_length) + LowestPoint4

GraphicalYOffset(infos, old) ==
  IF Size(infos) = 1
    THEN -SumSeq(At(infos, 0).m_suspension_length) + LowestPoint4
    ELSE old

\* center_shift: (0, m_graphical_y_offset, 0) turned by the kart's basis; a
\* rotation about the up axis leaves it as it is.
CenterShift(yoff, rot) == <<0, yoff, 0>>

\* The distance argument given as the speed, not scaled by dt.
AnimArgsUnscaled(dt, pi, idx) ==
  <<dt, pi.m_speed, pi.m_steer, pi.m_speed, idx>>

\* Arguments of getKartModel()->update(...).
AnimArgs(dt, pi, idx) ==
  <<dt, dt * pi.m_speed, pi.m_steer, pi.m_speed, idx>>

\* The front point taken from the pose as it was before the tick.
FrontPointStale(xyz, rot) ==
  [origin |-> m_xyz, rotation |-> m_rotation, local |-> <<0, 0, KartLength>>]

\* m_xyz_front = getTrans()(front): the current transform applied to the
\* offset (0, 0, getKartLength() * 0.5).  Kept as the transform and the
\* offset (in units of 1 / 2) it is applied to.
FrontPoint(xyz, rot) ==
  [origin |-> xyz, rotation |-> rot, local |-> <<0, 0, KartLength>>]

\* setVisible(false) outside the end-of-replay test.
VisibleAfterUpdateAlwaysHides(vis, ended) == FALSE

\* The end-of-replay branch without its setVisible(false).
VisibleAfterUpdateNeverHides(vis, ended) == vis

\* Visibility after update(): hidden when the replay has ended, untouched
\* otherwise.
VisibleAfterUpdate(vis, ended) == IF ended THEN FALSE ELSE vis

\* reset() without its setVisible(true).
VisibleAfterResetKept(vis) == vis

\* m_node->setVisible(true) of reset().
VisibleAfterReset(vis) == TRUE

\* reset() ending with a tick of a whole time step instead of update(0).
ResetUpdateDtStep == MaxDt

\* The time step of the update() at the end of reset().
ResetUpdateDt == 0

\* getSpeed() reading the frame after the current one.
SpeedIndexNext(c) == c.m_current_index + 1

\* The index getSpeed() reads m_all_physic_info at.
SpeedIndex(c) == c.m_current_index

\* A push_back that leaves the vector as it was.
PushBackDropped(v, x) == v

\* An insertion that puts the new element first.
PushFront(v, x) == <<x>> \o v

\* std::vector::push_back
PushBack(v, x) == Append(v, x)

\* The longest run of firing ticks that is counted.
MaxRun == MaxFrames

\* A zipper effect shown twice in a tick.
ZipperFiresTwice(kre) == IF kre.m_on_zipper THEN 2 ELSE 0

\* The number of showZipperFire() calls of a tick on a frame with these
\* event flags.
ZipperFires(kre) == IF kre.m_on_zipper THEN 1 ELSE 0

\* The count of the run after a tick that fired that many times.
RunAfter(run, fires) ==
  IF fires = 0 THEN 0
  ELSE IF run + fires > MaxRun THEN MaxRun ELSE run + fires

\* The calls update(dt) makes on the controller: gc->update(dt).
GcCallsOfUpdate(dt) == <<[call |-> "update", dt |-> dt]>>

\* The cursor as it was before gc->update(dt).
CursorAtReadStale(before, after) == before

\* The cursor update() reads the end flag, the index and the fraction from:
\* the reads come after gc->update(dt).
CursorAtRead(before, after) == after

\* assert(cond): in a build without NDEBUG a false condition aborts; with
\* NDEBUG the macro expands to nothing.  A run that gets past a false
\* condition is a run of a build with NDEBUG, one that aborts is a run of
\* a build without.
AssertFails(cond) == ~cond /\ FALSE \in ndebug /\ ndebug' = {FALSE}
AssertPasses(cond) ==
  IF cond THEN UNCHANGED ndebug ELSE TRUE \in ndebug /\ ndebug' = {TRUE}

\* Kart::reset() as far as the replay is concerned: it resets the controller.
KartReset(c) == GcReset(c)

\* The calls reset() makes on the controller: the reset() of Kart::reset(),
\* then the gc->update(0) of its own update(0).
GcCallsOfReset ==
  <<[call |-> "reset", dt |-> 0]>> \o GcCallsOfUpdate(ResetUpdateDt)

\* The controller after those calls.
RECURSIVE GcApply(_, _)
GcApply(c, calls) ==
  IF calls = <<>> THEN c
  ELSE GcApply(IF Head(calls).call = "reset" THEN KartReset(c)
               ELSE GcUpdate(c, Head(calls).dt),
               Tail(calls))

\* operator[] of the three vectors: the element, or whatever lies there when
\* the index is outside the vector.
ReadTransform(i) ==
  IF i < Size(m_all_transform) THEN {At(m_all_transform, i)}
  ELSE GarbageTransforms
ReadPhysicInfo(i) ==
  IF i < Size(m_all_physic_info) THEN {At(m_all_physic_info, i)}
  ELSE {f.pi : f \in SampleFrames}
ReadReplayEvent(i) ==
  IF i < Size(m_all_replay_events) THEN {At(m_all_replay_events, i)}
  ELSE {f.kre : f \in SampleFrames}

\* What the model observes of one tick.
Outputs ==
  [xyz |-> m_xyz, rotation |-> m_rotation, nitro |-> m_nitro_frac,
   zipper |-> zipper_fired, anim |-> anim, front |-> m_xyz_front]

\* The calls of a tick that produce nothing.
NoTickOutput ==
  /\ UNCHANGED <<pose, m_nitro_frac, m_center_shift, m_xyz_front>>
  /\ zipper_fired' = FALSE
  /\ zipper_run' = 0
  /\ anim' = NoCall

\* update() when the cursor reports the end: hide the node and return.  A
\* bug that drops the return lets the tick go on to write the pose.
GhostUpdateEndedNoReturn(vis) ==
  /\ m_visible' = FALSE
  /\ m_xyz' = [c \in 1..3 |-> m_xyz[c] + 1]
  /\ UNCHANGED <<m_rotation, m_nitro_frac, m_center_shift, m_xyz_front>>
  /\ zipper_fired' = FALSE
  /\ zipper_run' = 0
  /\ anim' = NoCall
  /\ UNCHANGED <<fault, oob_read, ndebug>>

GhostUpdateEnded(vis) ==
  /\ m_visible' = VisibleAfterUpdate(vis, TRUE)
  /\ NoTickOutput
  /\ UNCHANGED <<fault, oob_read, ndebug>>

\* GhostKart::update(dt) after gc->update(dt) left the cursor as c, with the
\* node's visibility vis on entry.
GhostUpdate(dt, c, vis) ==
  IF c.m_replay_end
    THEN GhostUpdateEnded(vis)
    ELSE
      LET idx == c.m_current_index
          rd  == c.m_replay_delta
      IN
      /\ m_visible' = VisibleAfterUpdate(vis, FALSE)
      /\ \/ \* assert(idx < m_all_transform.size()) fails
            /\ AssertFails(idx < Size(m_all_transform))
            /\ fault' = "assert"
            /\ NoTickOutput
            /\ UNCHANGED oob_read
         \/ \* a read outside a vector crashes
            /\ AssertPasses(idx < Size(m_all_transform))
            /\ ~(idx + 1 < Size(m_all_transform))
            /\ fault' = "segv"
            /\ oob_read' = TRUE
            /\ NoTickOutput
         \/ \* the assertion holds, or is compiled out
            /\ AssertPasses(idx < Size(m_all_transform))
            /\ \E kre \in ReadReplayEvent(idx), pi \in ReadPhysicInfo(idx),
                  t0 \in ReadTransform(idx), t1 \in ReadTransform(idx + 1) :
                 /\ m_nitro_frac' = NitroFrac(kre, pi)
                 /\ zipper_fired' = (ZipperFires(kre) > 0)
                 /\ zipper_run' = RunAfter(zipper_run, ZipperFires(kre))
                 /\ m_xyz' = Lerp(t0.origin, t1.origin, rd)
                 /\ m_rotation' = Slerp(t0.rotation, t1.rotation, rd)
                 /\ m_center_shift' = CenterShift(m_graphical_y_offset,
                                                  m_rotation')
                 /\ anim' = AnimArgs(dt, pi, idx)
                 /\ m_xyz_front' = FrontPoint(m_xyz', m_rotation')
            /\ oob_read' = (oob_read \/ ~(idx + 1 < Size(m_all_transform)))
            /\ fault' = IF idx + 1 < Size(m_all_transform)
                          THEN fault ELSE "ub"

FirstOut(dt) ==
  IF first_out # NoOut THEN first_out
  ELSE IF dt # 0 THEN Skipped
  ELSE [kind |-> "set", n |-> Size(m_all_transform), out |-> Outputs']

\* ------------------------------------------------ create-server screen
\* (src/states_screens/online/create_server_screen.cpp)
\*
\* Text representation.  The text of the name box is the record
\* [lead, body, trail]: lead whitespace characters, then body characters
\* that begin and end with a non-whitespace character, then trail
\* whitespace characters; a text of whitespace only has body = 0 and
\* trail = 0.  The text of the password box is the record [ok, other, wide]:
\* ok characters of the accepted set, other further one-byte characters and
\* wide characters that take two bytes in UTF-8.

\* name.size() < 4 (createServer)
MinNameSize == 4
\* name.size() > 30 (createServer)
MaxNameSize == 30
\* password.size() > 255 (createServer)
MaxPasswordSize == 255
\* Number of grand prix track counts offered: labels 1..20 (updateMoreOption)
GpTracks == 20

\* UserConfigParams::m_max_players.getDefaultValue()
MaxPlayersDefault == MaxPlayers

\* Smallest value of the max_players spinner.
MinPlayers == 2

NameText(l, b, t) == [lead |-> l, body |-> b, trail |-> t]
PasswordText(o, x, w) == [ok |-> o, other |-> x, wide |-> w]

\* The text init() puts in the name box: "<user>'s server".
DefaultName == NameText(0, MinNameSize + 9, 0)

\* Texts the name box can hold when the create button is pressed: sizes on
\* both sides of either limit, with and without surrounding whitespace.
NameTexts ==
  { DefaultName,
    NameText(2, 0, 0),           NameText(1, MinNameSize - 1, 1),
    NameText(0, MinNameSize, 0), NameText(1, MaxNameSize, 1),
    NameText(0, MaxNameSize + 1, 0) }

\* Texts the password box can hold when the create button is pressed.
PasswordTexts ==
  { PasswordText(0, 0, 0),
    PasswordText(MaxPasswordSize, 0, 0), PasswordText(MaxPasswordSize + 1, 0, 0),
    PasswordText(2, 1, 0), PasswordText(0, 0, 1) }

NoText == <<>>
NoServer == <<>>

\* irr::core::stringw::size()
WideSize(text) == text.lead + text.body + text.trail

\* A trim that removes the whitespace of the left end only.
TrimLeft(text) == NameText(0, text.body, text.trail)

\* irr::core::stringw::trim(): whitespace is removed from both ends.
Trim(text) == NameText(0, text.body, 0)

\* StringUtils::wideToUtf8 followed by std::string::size(): bytes.
Utf8Size(pw) == pw.ok + pw.other + 2 * pw.wide

\* Number of characters of the password text.
Chars(pw) == pw.ok + pw.other + pw.wide

\* password.find_first_not_of("a..zA..Z01234567890_") != std::string::npos
HasForeignByte(pw) == pw.other + pw.wide > 0

\* The name test of createServer, on the trimmed name.
NameRejected(name) ==
  WideSize(name) < MinNameSize \/ WideSize(name) > MaxNameSize

\* The password test of createServer, on the UTF-8 password.
PasswordRejected(pw) ==
  \/ (Utf8Size(pw) # 0 /\ HasForeignByte(pw))
  \/ Utf8Size(pw) > MaxPasswordSize

GameModes == 0..3

\* Largest value the more-options spinner offers after
\* updateMoreOption(game_mode): the index of its last label.
LastLabel(game_mode, ai, max_players) ==
  IF game_mode \in {0, 1}
  THEN IF ai THEN max_players - 2 ELSE GpTracks
  ELSE 1

\* CreateServerScreen::updateMoreOption(game_mode): the more-options spinner
\* afterwards, from the remembered value prev and the max_players spinner.
UpdateMoreOption(game_mode, prev, ai, max_players, spinner) ==
  IF game_mode \in {0, 1}
  THEN IF ai
       THEN [visible |-> TRUE,
             value |-> IF prev > max_players - 2
                       THEN max_players - 2 ELSE prev]
       ELSE [visible |-> TRUE, value |-> prev]
  ELSE IF game_mode \in {2, 3}
  THEN [visible |-> TRUE, value |-> prev]
  ELSE [spinner EXCEPT !.visible = FALSE]

\* The option createServer appends to the command line of the server.
MoreOption(game_mode, ai, esi) ==
  IF game_mode = 3
  THEN IF esi = 0 THEN <<"--soccer-timed">> ELSE <<"--soccer-goals">>
  ELSE IF game_mode = 2 THEN <<"--battle-mode", esi>>
  ELSE IF esi > 0
  THEN IF ai THEN <<"--server-ai", esi>> ELSE <<"--network-gp", esi>>
  ELSE <<>>

\* CreateServerScreen::loadedFromFile
ScreenLoaded ==
  /\ m_prev_mode = 0
  /\ m_prev_value = 0
  /\ m_supports_ai = FALSE
  /\ cfg_max_players = MaxPlayersDefault
  /\ m_max_players_widget = MaxPlayersDefault
  /\ m_game_mode_widget = 0
  /\ m_more_options_spinner = [visible |-> FALSE, value |-> 0]
  /\ m_info_widget = ""
  /\ exist_host = FALSE
  /\ joined_server = NoServer
  /\ lobby_pushed = FALSE
  /\ sp_args = NoCall
  /\ in_name = NoText
  /\ in_password = NoText
  /\ screen_op = "loadedFromFile"

\* No material registry is in play.
RegistryUnused ==
  /\ m_materials = <<>>
  /\ m_shared_material_index = 0
  /\ index_set = FALSE
  /\ m_freed = {}
  /\ perm_ret = {}
  /\ temp_new = {}
  /\ mat_ret = NoRet
  /\ mat_op = "none"

\* GhostKart::GhostKart
InitGhostKart ==
  /\ m_all_transform = <<>>
  /\ m_all_physic_info = <<>>
  /\ m_all_replay_events = <<>>
  /\ m_graphical_y_offset = 0
  /\ gc = GcInit
  /\ m_visible = TRUE
  /\ m_xyz = <<0, 0, 0>>
  /\ m_rotation = 0
  /\ m_nitro_frac = 0
  /\ m_center_shift = <<0, 0, 0>>
  /\ m_xyz_front = FrontPoint(<<0, 0, 0>>, 0)
  /\ zipper_fired = FALSE
  /\ anim = NoCall
  /\ speed_ret = NoRet
  /\ fault = "none"
  /\ oob_read = FALSE
  /\ ndebug = BOOLEAN
  /\ lastOp = "init"
  /\ pre_visible = TRUE
  /\ first_out = NoOut
  /\ zipper_run = 0
  /\ gc_log = <<>>
  /\ tick_dt = 0
  /\ n_added = 0

\* The ghost kart after construction; the material registry plays no part
\* in the playback.
Init ==
  /\ RegistryUnused
  /\ ScreenLoaded
  /\ InitGhostKart

\* GhostKart::addReplayEvent(time, trans, pi, kre).  setDefaultSuspension()
\* acts on the kart model only.
AddReplayEvent(time, trans, pi, kre) ==
  /\ fault = "none"
  /\ Size(m_all_transform) < MaxFrames
  /\ gc' = GcAddReplayTime(gc, time)
  /\ m_all_transform' = PushBack(m_all_transform, trans)
  /\ m_all_physic_info' = PushBack(m_all_physic_info, pi)
  /\ m_all_replay_events' = PushBack(m_all_replay_events, kre)
  /\ m_graphical_y_offset' =
       GraphicalYOffset(m_all_physic_info', m_graphical_y_offset)
  /\ zipper_fired' = FALSE
  /\ zipper_run' = 0
  /\ anim' = NoCall
  /\ speed_ret' = NoRet
  /\ gc_log' = <<>>
  /\ tick_dt' = 0
  /\ n_added' = n_added + 1
  /\ lastOp' = "addReplayEvent"
  /\ pre_visible' = m_visible
  /\ UNCHANGED <<m_visible, pose, m_nitro_frac, m_center_shift, m_xyz_front,
                 fault, oob_read, ndebug, first_out, matvars, screenvars>>

\* The replay times are recorded in increasing order, starting at 0, the
\* time the cursor is reset to.
NextTimes ==
  IF gc.m_all_times = <<>> THEN {0}
  ELSE {At(gc.m_all_times, Size(gc.m_all_times) - 1) + g : g \in FrameGaps}

\* GhostKart::update(dt).  The kart's controller is the GhostController the
\* replay times were given to, so gc is not NULL.
Update(dt) ==
  /\ fault = "none"
  /\ gc.m_current_time + dt <= MaxTime
  /\ gc_log' = GcCallsOfUpdate(dt)
  /\ gc' = GcApply(gc, gc_log')
  /\ GhostUpdate(dt, CursorAtRead(gc, gc'), m_visible)
  /\ tick_dt' = dt
  /\ speed_ret' = NoRet
  /\ lastOp' = "update"
  /\ pre_visible' = m_visible
  /\ first_out' = FirstOut(dt)
  /\ UNCHANGED <<store, m_graphical_y_offset, n_added, matvars, screenvars>>

\* GhostKart::reset(): setVisible(true), Kart::reset() (which resets the
\* controller), update(0).
Reset ==
  /\ fault = "none"
  /\ gc_log' = GcCallsOfReset
  /\ gc' = GcApply(gc, gc_log')
  /\ GhostUpdate(ResetUpdateDt, CursorAtRead(gc, gc'),
                 VisibleAfterReset(m_visible))
  /\ tick_dt' = ResetUpdateDt
  /\ speed_ret' = NoRet
  /\ lastOp' = "reset"
  /\ pre_visible' = m_visible
  /\ first_out' = FirstOut(ResetUpdateDt)
  /\ UNCHANGED <<store, m_graphical_y_offset, n_added, matvars, screenvars>>

\* An assertion that lets the index one past the end through.
GetSpeedPreconditionOffByOne(idx) == idx <= Size(m_all_physic_info)

\* The condition getSpeed() asserts.
GetSpeedPrecondition(idx) == idx < Size(m_all_physic_info)

\* GhostKart::getSpeed()
GetSpeed ==
  /\ fault = "none"
  /\ LET idx == gc.m_current_index IN
     \/ \* assert(idx < m_all_physic_info.size()) fails
        /\ AssertFails(GetSpeedPrecondition(idx))
        /\ fault' = "assert"
        /\ speed_ret' = NoRet
        /\ UNCHANGED oob_read
     \/ \* the read outside the vector crashes
        /\ AssertPasses(GetSpeedPrecondition(idx))
        /\ ~(idx < Size(m_all_physic_info))
        /\ fault' = "segv"
        /\ speed_ret' = NoRet
        /\ oob_read' = TRUE
     \/ \* the assertion holds, or is compiled out
        /\ AssertPasses(GetSpeedPrecondition(idx))
        /\ \E pi \in ReadPhysicInfo(SpeedIndex(gc)) :
             speed_ret' = <<pi.m_speed>>
        /\ oob_read' = (oob_read \/ ~(idx < Size(m_all_physic_info)))
        /\ fault' = IF idx < Size(m_all_physic_info) THEN fault ELSE "ub"
  /\ zipper_fired' = FALSE
  /\ zipper_run' = 0
  /\ anim' = NoCall
  /\ gc_log' = <<>>
  /\ tick_dt' = 0
  /\ lastOp' = "getSpeed"
  /\ pre_visible' = m_visible
  /\ UNCHANGED <<store, m_graphical_y_offset, gc, m_visible, pose,
                 m_nitro_frac, m_center_shift, m_xyz_front, first_out,
                 n_added, matvars, screenvars>>

Next ==
  \/ \E t \in NextTimes, f \in SampleFrames :
       AddReplayEvent(t, f.trans, f.pi, f.kre)
  \/ \E dt \in 0..MaxDt : Update(dt)
  \/ Reset
  \/ GetSpeed

Spec == Init /\ [][Next]_vars

\* A controller that breaks its contract by never signalling the end: it
\* advances like GhostController::update and leaves the end flag false, so
\* that the index can rest on the last frame with the replay not ended.
GcUpdateNoEndSignal(c, dt) ==
  [GcUpdate([c EXCEPT !.m_replay_end = FALSE], dt)
     EXCEPT !.m_replay_end = FALSE]

\* GhostKart::update(dt) driven by that controller.
UpdateNoEndSignal(dt) ==
  /\ fault = "none"
  /\ gc.m_current_time + dt <= MaxTime
  /\ gc_log' = GcCallsOfUpdate(dt)
  /\ gc' = GcUpdateNoEndSignal(gc, dt)
  /\ GhostUpdate(dt, CursorAtRead(gc, gc'), m_visible)
  /\ tick_dt' = dt
  /\ speed_ret' = NoRet
  /\ lastOp' = "update"
  /\ pre_visible' = m_visible
  /\ first_out' = FirstOut(dt)
  /\ UNCHANGED <<store, m_graphical_y_offset, n_added, matvars, screenvars>>

NextNoEndSignal ==
  \/ \E t \in NextTimes, f \in SampleFrames :
       AddReplayEvent(t, f.trans, f.pi, f.kre)
  \/ \E dt \in 0..MaxDt : UpdateNoEndSignal(dt)
  \/ GetSpeed

SpecNoEndSignal == Init /\ [][NextNoEndSignal]_vars

\* ------------------------------------------------- the material registry
\* material_manager.cpp.  A Material is known by the identity of its object
\* (id, 1 upwards; 0 is the null pointer) and its texture file name.
MaxMaterials == 3
MaxAllocs == MaxMaterials + 1

\* A file name is the sequence of its path components; "" is <<>>.
Fnames == {<<>>, <<"a">>, <<"gui", "a">>, <<"b">>}

\* StringUtils::basename
Basename(fname) == fname[Len(fname)]

\* What file_manager->createXMLTree yields for the files at hand: the name
\* of the root node ("" when there is no tree) and, per child node, the
\* texture it names ("" for a node Material's constructor rejects).
XmlTree(filename) ==
  CASE filename = "materials.xml" -> [root |-> "materials", nodes |-> <<"a">>]
    [] filename = "track.xml" ->
         [root |-> "materials", nodes |-> <<"a", "", "b">>]
    [] filename = "kart.xml" -> [root |-> "kart", nodes |-> <<"b">>]
    [] OTHER -> [root |-> "", nodes |-> <<>>]

XmlFiles == {"materials.xml", "track.xml", "kart.xml", "gone.xml"}

\* What reading m_shared_material_index can yield before it has been
\* assigned: the constructor does not initialise it.
UninitIndex == {-1, 0, 2}

NullMaterial == 0

\* new Material: an object apart from every one allocated before.
NewMaterial(mats, freed, tex) ==
  [id |-> Len(mats) + Cardinality(freed) + 1, tex |-> tex]

\* The loop of pushTempMaterial over the nodes of the tree: a node whose
\* Material constructor throws is reported and skipped.
RECURSIVE PushNodes(_, _, _)
PushNodes(mats, freed, nodes) ==
  IF nodes = <<>> THEN mats
  ELSE IF Head(nodes) = "" THEN PushNodes(mats, freed, Tail(nodes))
  ELSE PushNodes(PushBack(mats, NewMaterial(mats, freed, Head(nodes))),
                 freed, Tail(nodes))

\* MaterialManager::pushTempMaterial as a function of the vector
PushTemp(mats, freed, filename) ==
  LET tree == XmlTree(filename) IN
    IF tree.root # "materials" THEN mats
    ELSE PushNodes(mats, freed, tree.nodes)

\* The backward search of getMaterial: the index of the last material with
\* that texture name, -1 when there is none.
RECURSIVE FindLast(_, _, _)
FindLast(mats, basename, i) ==
  IF i < 0 THEN -1
  ELSE IF At(mats, i).tex = basename THEN i
  ELSE FindLast(mats, basename, i - 1)

\* MaterialManager::MaterialManager
MaterialManagerConstructed ==
  /\ m_materials = <<>>
  /\ m_shared_material_index = 0
  /\ index_set = FALSE
  /\ m_freed = {}
  /\ perm_ret = {}
  /\ temp_new = {}
  /\ mat_ret = NoRet
  /\ mat_op = "init"

InitMaterial ==
  /\ MaterialManagerConstructed
  /\ ScreenLoaded
  /\ InitGhostKart

Fits(mats, freed) ==
  /\ Len(mats) <= MaxMaterials
  /\ Len(mats) + Cardinality(freed) <= MaxAllocs

\* MaterialManager::addEntity(new Material)
AddEntity(tex) ==
  /\ fault = "none"
  /\ m_materials' = PushBack(m_materials, NewMaterial(m_materials, m_freed, tex))
  /\ Fits(m_materials', m_freed)
  /\ mat_ret' = <<Size(m_materials') - 1>>
  /\ mat_op' = "addEntity"
  /\ UNCHANGED <<m_shared_material_index, index_set, m_freed, perm_ret,
                 temp_new>>
  /\ UNCHANGED <<store, m_graphical_y_offset, gc, m_visible, pose, effects,
                 speed_ret, fault, oob_read, ndebug, hist, screenvars>>

\* MaterialManager::pushTempMaterial(filename)
PushTempMaterial(filename) ==
  /\ fault = "none"
  /\ m_materials' = PushTemp(m_materials, m_freed, filename)
  /\ Fits(m_materials', m_freed)
  /\ mat_ret' = NoRet
  /\ mat_op' = "pushTempMaterial"
  /\ UNCHANGED <<m_shared_material_index, index_set, m_freed, perm_ret,
                 temp_new>>
  /\ UNCHANGED <<store, m_graphical_y_offset, gc, m_visible, pose, effects,
                 speed_ret, fault, oob_read, ndebug, hist, screenvars>>

\* MaterialManager::addSharedMaterial(filename): an empty name throws
\* std::runtime_error before anything is touched.
AddSharedMaterial(filename) ==
  /\ fault = "none"
  /\ IF filename = ""
       THEN /\ mat_op' = "addSharedMaterial throws"
            /\ UNCHANGED <<registry, temp_new>>
       ELSE /\ m_materials' = PushTemp(m_materials, m_freed, filename)
            /\ Fits(m_materials', m_freed)
            /\ m_shared_material_index' = Size(m_materials')
            /\ index_set' = TRUE
            /\ temp_new' = {}
            /\ mat_op' = "addSharedMaterial"
  /\ mat_ret' = NoRet
  /\ UNCHANGED <<m_freed, perm_ret>>
  /\ UNCHANGED <<store, m_graphical_y_offset, gc, m_visible, pose, effects,
                 speed_ret, fault, oob_read, ndebug, hist, screenvars>>

\* MaterialManager::loadMaterial()
LoadMaterial ==
  /\ fault = "none"
  /\ m_materials' = PushTemp(m_materials, m_freed, "materials.xml")
  /\ Fits(m_materials', m_freed)
  /\ m_shared_material_index' = Size(m_materials')
  /\ index_set' = TRUE
  /\ mat_ret' = NoRet
  /\ mat_op' = "loadMaterial"
  /\ temp_new' = {}
  /\ UNCHANGED <<m_freed, perm_ret>>
  /\ UNCHANGED <<store, m_graphical_y_offset, gc, m_visible, pose, effects,
                 speed_ret, fault, oob_read, ndebug, hist, screenvars>>

\* The materials popTempMaterial deletes: those at the positions from the
\* shared index on.
Temporaries(mats, index) ==
  {mats[k] : k \in {k \in 1..Len(mats) : k - 1 >= index}}

FreedBy(ms, call) == {[id |-> m.id, by |-> call] : m \in ms}

\* A loop that stops one material early (i > index).
PopTempStopsEarly(mats, index) ==
  SubSeq(mats, 1, IF index < 0 THEN 0
                  ELSE IF index + 1 < Size(mats) THEN index + 1
                  ELSE Size(mats))

\* What is left of the vector after the loop of popTempMaterial.
PopTemp(mats, index) ==
  SubSeq(mats, 1, IF index < 0 THEN 0
                  ELSE IF index < Size(mats) THEN index ELSE Size(mats))

\* MaterialManager::popTempMaterial().  The index read is garbage when the
\* member was never assigned; with a negative index the loop runs on at
\* i = -1, on the emptied vector.
PopTempMaterial ==
  /\ fault = "none"
  /\ \E index \in (IF index_set THEN {m_shared_material_index}
                   ELSE UninitIndex) :
       /\ m_freed' = m_freed \cup FreedBy(Temporaries(m_materials, index),
                                          "popTempMaterial")
       /\ m_materials' = PopTemp(m_materials, index)
       /\ IF index < 0
            THEN fault' \in {"segv", "ub"} /\ oob_read' = TRUE
            ELSE /\ fault' = IF index_set THEN "none" ELSE "ub"
                 /\ UNCHANGED oob_read
  /\ mat_ret' = NoRet
  /\ mat_op' = "popTempMaterial"
  /\ temp_new' = {m_materials'[k].id : k \in 1..Len(m_materials')}
                   \cap temp_new
  /\ UNCHANGED <<m_shared_material_index, index_set, perm_ret>>
  /\ UNCHANGED <<store, m_graphical_y_offset, gc, m_visible, pose, effects,
                 speed_ret, ndebug, hist, screenvars>>

\* getMaterial keeps a material it has just created only when asked to.
SharedIndexAfterNew(make_permanent, index, size) ==
  IF make_permanent THEN size ELSE index

\* MaterialManager::getMaterial(fname, is_full_path, make_permanent).
\* is_full_path only tells the Material where to load its texture from.
GetMaterial(fname, is_full_path, make_permanent) ==
  /\ fault = "none"
  /\ LET found == IF fname = <<>> THEN -1
                  ELSE FindLast(m_materials, Basename(fname),
                                Size(m_materials) - 1)
         m == IF fname = <<>>
                THEN IF Size(m_materials) >= 1 THEN At(m_materials, 0).id
                     ELSE NullMaterial
                ELSE IF found >= 0 THEN At(m_materials, found).id
                ELSE NewMaterial(m_materials, m_freed, Basename(fname)).id
     IN /\ IF fname = <<>> \/ found >= 0
             THEN UNCHANGED registry
             ELSE /\ m_materials' =
                       PushBack(m_materials,
                                NewMaterial(m_materials, m_freed,
                                            Basename(fname)))
                  /\ Fits(m_materials', m_freed)
                  /\ m_shared_material_index' =
                       SharedIndexAfterNew(make_permanent,
                                           m_shared_material_index,
                                           Size(m_materials'))
                  /\ index_set' = (index_set \/ make_permanent)
        /\ mat_ret' = <<m>>
        /\ perm_ret' = IF make_permanent /\ m # NullMaterial
                         THEN perm_ret \cup {m} ELSE perm_ret
        /\ temp_new' = IF fname # <<>> /\ found < 0 /\ ~make_permanent
                         THEN temp_new \cup {m} ELSE temp_new
  /\ mat_op' = "getMaterial"
  /\ UNCHANGED m_freed
  /\ UNCHANGED <<store, m_graphical_y_offset, gc, m_visible, pose, effects,
                 speed_ret, fault, oob_read, ndebug, hist, screenvars>>

\* MaterialManager::reInit()
ReInit ==
  /\ fault = "none"
  /\ m_freed' = m_freed \cup FreedBy(Temporaries(m_materials, 0), "reInit")
  /\ m_materials' = PushTemp(<<>>, m_freed', "materials.xml")
  /\ Fits(m_materials', m_freed')
  /\ m_shared_material_index' = Size(m_materials')
  /\ index_set' = TRUE
  /\ mat_ret' = NoRet
  /\ mat_op' = "reInit"
  /\ temp_new' = {}
  /\ UNCHANGED perm_ret
  /\ UNCHANGED <<store, m_graphical_y_offset, gc, m_visible, pose, effects,
                 speed_ret, fault, oob_read, ndebug, hist, screenvars>>

NextMaterial ==
  \/ LoadMaterial
  \/ \E filename \in XmlFiles \cup {""} : AddSharedMaterial(filename)
  \/ \E filename \in XmlFiles : PushTempMaterial(filename)
  \/ PopTempMaterial
  \/ \E fname \in Fnames, is_full_path \in BOOLEAN, make_permanent \in BOOLEAN :
       GetMaterial(fname, is_full_path, make_permanent)
  \/ \E tex \in {"a", "b"} : AddEntity(tex)
  \/ ReInit

SpecMaterial == InitMaterial /\ [][NextMaterial]_vars

\* ------------------------------------------------------------ properties
N == Size(m_all_transform)
Ticked == lastOp \in {"update", "reset"}
Idx == gc.m_current_index
Rd == gc.m_replay_delta
Origin(i) == At(m_all_transform, i).origin
Rotation(i) == At(m_all_transform, i).rotation
Scaled(p) == [c \in 1..3 |-> RdDen * p[c]]

\* C1: the entity goes from Active to Ended only in an update() (reset()'s
\* own update(0) included) whose cursor reports the end after advancing;
\* it goes from Ended to Active only in reset(); an update() never makes an
\* Ended entity Active.
C1_VisibilityTransitions ==
  [][ /\ (m_visible /\ ~m_visible')
           => (lastOp' \in {"update", "reset"} /\ gc'.m_replay_end)
      /\ (~m_visible /\ m_visible') => lastOp' = "reset"
      /\ (lastOp' = "update" /\ ~m_visible) => ~m_visible' ]_vars

\* An entity that had ended is Active again after reset().
C1_Witness ==
  lastOp = "reset" /\ ~pre_visible /\ m_visible /\ N >= 2

\* C2: an update() whose cursor reports the end hides the entity and
\* produces nothing else: position, orientation, front point and nitro
\* intensity keep their values, the zipper is not fired, no animation call is
\* made; and every update() of an Ended entity leaves the pose as it is.
C2_EndedTickProducesNothing ==
  [][ /\ (lastOp' \in {"update", "reset"} /\ gc'.m_replay_end)
           => /\ ~m_visible'
              /\ pose' = pose
              /\ m_xyz_front' = m_xyz_front
              /\ m_nitro_frac' = m_nitro_frac
              /\ m_center_shift' = m_center_shift
              /\ zipper_fired' = FALSE
              /\ anim' = NoCall
      /\ (lastOp' = "update" /\ ~m_visible)
           => (pose' = pose /\ m_xyz_front' = m_xyz_front) ]_vars

\* A tick on an entity that had ended before, whose pose was set by an
\* earlier tick.
C2_Witness ==
  /\ lastOp = "update" /\ gc.m_replay_end /\ ~pre_visible /\ ~m_visible
  /\ N >= 2 /\ m_xyz # <<0, 0, 0>> /\ m_nitro_frac > 0

\* C3: with at least 2 frames, reset() leaves the entity Active with the
\* cursor at frame 0, fraction 0, and the outputs (position, orientation,
\* nitro intensity, zipper trigger, animation arguments, front point) equal
\* those of the first update(0) after loading.
C3_ResetReproducesFirstTick ==
  (lastOp = "reset" /\ first_out.kind = "set" /\ first_out.n >= 2)
    => /\ m_visible
       /\ Idx = 0 /\ Rd = 0 /\ ~gc.m_replay_end
       /\ Outputs = first_out.out

\* reset() of an entity whose replay had run to its end.
C3_Witness ==
  /\ lastOp = "reset" /\ first_out.kind = "set" /\ first_out.n >= 2
  /\ ~pre_visible /\ m_visible /\ Outputs = first_out.out
  /\ m_xyz # <<0, 0, 0>>

\* C4: with an empty store, update(dt) leaves the entity Ended, trips no
\* assertion and reads no frame.
C4_EmptyStoreEnds ==
  [][ (lastOp' = "update" /\ Size(m_all_transform') = 0)
        => (~m_visible' /\ fault' = "none" /\ oob_read' = oob_read
            /\ pose' = pose) ]_vars

\* An update on the empty store.
C4_Witness ==
  lastOp = "update" /\ N = 0 /\ ~m_visible /\ fault = "none" /\ ~oob_read

\* C5: update() checks idx + 1 < frameCount() before it reads the two
\* frames: a cursor that is not ended and rests on the last frame
\* (idx = frameCount() - 1) is stopped by the assertion.
C5_AssertionGuardsNextFrame ==
  (lastOp = "update" /\ ~gc.m_replay_end /\ N >= 1 /\ Idx = N - 1)
    => fault = "assert"

\* C6: after a non-ended update() the position is
\* (1 - rd) * P[idx] + rd * P[idx+1]: it lies rd of the way from P[idx] to
\* P[idx+1]; at rd = 0 it is P[idx].
C6_PositionIsLinearInterpolation ==
  (Ticked /\ ~gc.m_replay_end /\ fault = "none")
    => /\ Idx + 1 < N
       /\ \A c \in 1..3 :
            m_xyz[c] - RdDen * Origin(Idx)[c]
              = Rd * (Origin(Idx + 1)[c] - Origin(Idx)[c])
       /\ (Rd = 0 => m_xyz = Scaled(Origin(Idx)))

\* A tick strictly between frame 1 and frame 2, which differ.
C6_Witness ==
  /\ lastOp = "update" /\ ~gc.m_replay_end /\ fault = "none"
  /\ Idx = 1 /\ Rd > 0 /\ N = 3
  /\ Origin(1) # Origin(2)
  /\ m_xyz # Scaled(Origin(1)) /\ m_xyz # Scaled(Origin(2))

\* C7: with the cursor index inside the store, getSpeed() returns the speed
\* of frame idx, whatever rd and frame idx+1 are, and changes no state.
C7_GetSpeedIsFrameSpeed ==
  [][ (lastOp' = "getSpeed" /\ Idx < Size(m_all_physic_info))
        => /\ speed_ret' = <<At(m_all_physic_info, Idx).m_speed>>
           /\ UNCHANGED <<store, m_graphical_y_offset, gc, m_visible, pose,
                          m_nitro_frac, m_center_shift, m_xyz_front, fault,
                          oob_read>> ]_vars

\* Frames with speeds 5 and 7, cursor at index 0 between them: 5 is returned.
C7_Witness ==
  /\ lastOp = "getSpeed" /\ N >= 2 /\ Idx = 0 /\ Rd > 0
  /\ At(m_all_physic_info, 0).m_speed = 5
  /\ At(m_all_physic_info, 1).m_speed = 7
  /\ speed_ret = <<5>>

\* C8: the nitro intensity given to the effects is within [0, 1].
C8_NitroWithinUnitInterval ==
  0 <= m_nitro_frac /\ m_nitro_frac <= EngineMaxSpeed

\* A tick on a nitro frame whose speed is negative and beyond the maximum.
C8_Witness ==
  /\ lastOp = "update" /\ ~gc.m_replay_end /\ fault = "none"
  /\ At(m_all_replay_events, Idx).m_on_nitro
  /\ At(m_all_physic_info, Idx).m_speed < -EngineMaxSpeed
  /\ m_nitro_frac = EngineMaxSpeed

\* C9: the graphical y offset is computed by the append that makes the size
\* 1, from that frame's four suspension lengths, and by no other call.
C9_BaselineFromFirstFrameOnly ==
  [][ /\ (Size(m_all_physic_info) = 0 /\ Size(m_all_physic_info') = 1)
           => LET l == At(m_all_physic_info', 0).m_suspension_length
              IN m_graphical_y_offset' =
                   LowestPoint4 - (l[1] + l[2] + l[3] + l[4])
      /\ ~(Size(m_all_physic_info) = 0 /\ Size(m_all_physic_info') = 1)
           => m_graphical_y_offset' = m_graphical_y_offset ]_vars

\* A full store whose later frames have other suspension lengths than the
\* first, after playback and a reset.
C9_Witness ==
  /\ N = MaxFrames /\ lastOp = "getSpeed" /\ ~m_visible
  /\ SumSeq(At(m_all_physic_info, 0).m_suspension_length)
       # SumSeq(At(m_all_physic_info, N - 1).m_suspension_length)
  /\ m_graphical_y_offset =
       LowestPoint4 - SumSeq(At(m_all_physic_info, 0).m_suspension_length)

\* C10 as stated: after reset() the entity is Active with the pose of frame
\* 0, whatever the store contains.
C10_ResetAlwaysActiveAtFrame0 ==
  lastOp = "reset"
    => /\ m_visible
       /\ N >= 1
            => (m_xyz = Scaled(Origin(0)) /\ m_rotation = RdDen * Rotation(0))

\* C10 amended: after reset(), if the cursor does not report the end after
\* reset()'s update(0), which is so exactly when the store holds at least two
\* frames, the entity is Active with the pose of frame 0; otherwise it is
\* hidden.
C10_ResetActiveAtFrame0UnlessEnded ==
  lastOp = "reset"
    => /\ gc.m_replay_end <=> N < 2
       /\ IF gc.m_replay_end
            THEN ~m_visible
            ELSE /\ m_visible
                 /\ m_xyz = Scaled(Origin(0))
                 /\ m_rotation = RdDen * Rotation(0)

\* reset() of an ended entity whose pose was elsewhere, frame 0 not being at
\* the origin.
C10_Witness ==
  /\ lastOp = "reset" /\ ~pre_visible /\ m_visible /\ ~gc.m_replay_end
  /\ Origin(0) # <<0, 0, 0>> /\ m_xyz = Scaled(Origin(0))
  /\ m_rotation = RdDen * Rotation(0)

\* C11 as stated: getSpeed() called with the cursor index outside the store
\* fails its assertion, returns no value and reads nothing outside the
\* store.
C11_GetSpeedAlwaysAsserts ==
  (lastOp = "getSpeed" /\ ~(Idx < Size(m_all_physic_info)))
    => (fault = "assert" /\ speed_ret = NoRet /\ ~oob_read)

\* C11 amended: in a build that keeps assert() (no NDEBUG) such a call fails
\* the assertion, returns no value and reads nothing outside the store; in
\* a build with NDEBUG the assertion is gone and m_all_physic_info is read
\* outside its bounds.
C11_GetSpeedAssertsUnlessNdebug ==
  (lastOp = "getSpeed" /\ ~(Idx < Size(m_all_physic_info)))
    => IF ndebug = {TRUE}
         THEN oob_read /\ fault \in {"segv", "ub"}
         ELSE fault = "assert" /\ speed_ret = NoRet /\ ~oob_read

\* getSpeed() on the empty store in a build with assertions.
C11_Witness ==
  /\ lastOp = "getSpeed" /\ ndebug = {FALSE} /\ N = 0 /\ Idx = 0
  /\ fault = "assert" /\ speed_ret = NoRet /\ ~oob_read

\* The elements 0..n-1 of a vector.
Prefix(v, n) == SubSeq(v, 1, n)

\* C12: addReplayEvent adds exactly one frame, at index frameCount(), and
\* leaves the frames before it as they were; update(), reset() and
\* getSpeed() leave the number and the contents of the stored frames
\* unchanged.
C12_StoreAppendOnlyStep ==
  /\ lastOp' = "addReplayEvent" =>
        /\ Size(m_all_transform') = N + 1
        /\ Size(m_all_physic_info') = Size(m_all_physic_info) + 1
        /\ Size(m_all_replay_events') = Size(m_all_replay_events) + 1
        /\ Prefix(m_all_transform', N) = m_all_transform
        /\ Prefix(m_all_physic_info', N) = m_all_physic_info
        /\ Prefix(m_all_replay_events', N) = m_all_replay_events
        /\ At(m_all_transform', N) \in {f.trans : f \in SampleFrames}
  /\ lastOp' \in {"update", "reset", "getSpeed"} =>
        /\ m_all_transform' = m_all_transform
        /\ m_all_physic_info' = m_all_physic_info
        /\ m_all_replay_events' = m_all_replay_events

C12_StoreAppendOnly == [][C12_StoreAppendOnlyStep]_vars

\* A second frame has been appended behind the first, after the playback
\* had run on the first.
C12_Witness ==
  /\ N = 2 /\ fault = "none" /\ first_out # NoOut
  /\ lastOp = "addReplayEvent"
  /\ Origin(1) # Origin(0)

\* C15: a material returned by getMaterial(.., make_permanent = true) is
\* never deleted by a later popTempMaterial().
C15_PermanentNeverPopped ==
  fault = "none" =>
    \A f \in m_freed : f.by = "popTempMaterial" => f.id \notin perm_ret

\* C16: after a non-ended update() the nitro intensity is 0 when frame idx
\* has its nitro flag off, and min(|speed[idx]| / EngineMaxSpeed, 1) when it
\* is on (in units of 1 / EngineMaxSpeed: the smaller of |speed[idx]| and
\* EngineMaxSpeed); frame idx+1 and rd play no part.
C16_NitroFromFrameIdx ==
  (Ticked /\ ~gc.m_replay_end /\ fault = "none") =>
    LET speed == At(m_all_physic_info, Idx).m_speed
        mag == IF speed < 0 THEN 0 - speed ELSE speed
    IN /\ ~At(m_all_replay_events, Idx).m_on_nitro => m_nitro_frac = 0
       /\ At(m_all_replay_events, Idx).m_on_nitro =>
            /\ mag <= EngineMaxSpeed => m_nitro_frac = mag
            /\ mag > EngineMaxSpeed => m_nitro_frac = EngineMaxSpeed

\* A tick half way from a frame without nitro and with a speed to a frame
\* with nitro: the intensity is 0.
C16_Witness ==
  /\ lastOp = "update" /\ ~gc.m_replay_end /\ fault = "none"
  /\ Rd > 0
  /\ ~At(m_all_replay_events, Idx).m_on_nitro
  /\ At(m_all_physic_info, Idx).m_speed # 0
  /\ At(m_all_replay_events, Idx + 1).m_on_nitro
  /\ m_nitro_frac = 0

\* C17: a tick (update(), or the update(0) of reset()) fires the zipper
\* effect exactly when it is not ended and frame idx has its zipper flag,
\* and then fires it once: the count of the run of firing ticks goes up by
\* one (up to MaxRun, where the count stops), so k such ticks in a row on a
\* flagged frame fire k times.
C17_ZipperStep ==
  (lastOp' \in {"update", "reset"} /\ fault' = "none") =>
    LET fires == IF gc'.m_replay_end THEN FALSE
                 ELSE At(m_all_replay_events', gc'.m_current_index).m_on_zipper
    IN /\ zipper_fired' = fires
       /\ zipper_run' = IF ~fires THEN 0
                         ELSE IF zipper_run < MaxRun THEN zipper_run + 1
                         ELSE MaxRun

C17_ZipperFiresEveryTick == [][C17_ZipperStep]_vars

\* Two ticks in a row inside frame 0, the only frame with the zipper flag:
\* two firings.
C17_Witness ==
  /\ lastOp = "update" /\ ~gc.m_replay_end /\ fault = "none"
  /\ N = 2 /\ Idx = 0 /\ Rd > 0
  /\ At(m_all_replay_events, 0).m_on_zipper
  /\ ~At(m_all_replay_events, 1).m_on_zipper
  /\ zipper_fired /\ zipper_run = 2

\* C18: update(dt) calls gc->update once, with its own dt, and reads the
\* end flag, the index and the fraction from the cursor as that call left
\* it; reset() resets the cursor and then runs update(0), which leaves the
\* cursor at time 0 on frame 0.
C18_CursorStep ==
  /\ lastOp' = "update" =>
        /\ gc_log' = <<[call |-> "update", dt |-> tick_dt']>>
        /\ gc' = GcUpdate(gc, tick_dt')
  /\ lastOp' = "reset" =>
        /\ gc_log' = <<[call |-> "reset", dt |-> 0],
                       [call |-> "update", dt |-> 0]>>
        /\ tick_dt' = 0
        /\ gc' = GcUpdate(GcReset(gc), 0)
        /\ gc'.m_current_time = 0 /\ gc'.m_current_index = 0
  /\ (lastOp' \in {"update", "reset"} /\ fault' = "none") =>
        /\ m_visible' = FALSE <=>
              (gc'.m_replay_end \/ (lastOp' = "update" /\ ~m_visible))
        /\ ~gc'.m_replay_end =>
              /\ anim'[5] = gc'.m_current_index
              /\ \A c \in 1..3 :
                    m_xyz'[c]
                      = (RdDen - gc'.m_replay_delta)
                          * At(m_all_transform', gc'.m_current_index).origin[c]
                        + gc'.m_replay_delta
                          * At(m_all_transform',
                               gc'.m_current_index + 1).origin[c]

C18_CursorAdvancedOnceBeforeReads == [][C18_CursorStep]_vars

\* An update(dt) with dt > 0 from time 0 that took the cursor from frame 0
\* to frame 1: the animation call got index 1, and the position is that of
\* frame 1, which differs from frame 0's.
C18_Witness ==
  /\ lastOp = "update" /\ ~gc.m_replay_end /\ fault = "none"
  /\ tick_dt > 0 /\ gc.m_current_time = tick_dt
  /\ gc_log = <<[call |-> "update", dt |-> tick_dt]>>
  /\ Idx = 1 /\ Rd = 0 /\ anim[5] = 1
  /\ Origin(0) # Origin(1) /\ m_xyz = Scaled(Origin(1))

\* C19: a non-ended update(dt) leaves one animation call, with the
\* arguments (dt, speed[idx] * dt, steer[idx], speed[idx], idx) of frame idx
\* alone; an ended update leaves none.
C19_AnimationFromFrameIdx ==
  (Ticked /\ fault = "none") =>
    IF gc.m_replay_end THEN anim = NoCall
    ELSE /\ Len(anim) = 5
         /\ anim[1] = tick_dt
         /\ anim[2] = At(m_all_physic_info, Idx).m_speed * tick_dt
         /\ anim[3] = At(m_all_physic_info, Idx).m_steer
         /\ anim[4] = At(m_all_physic_info, Idx).m_speed
         /\ anim[5] = Idx

\* An update(dt) with dt > 1 that ends strictly between two frames of
\* different speed and steering.
C19_Witness ==
  /\ lastOp = "update" /\ ~gc.m_replay_end /\ fault = "none"
  /\ tick_dt > 1 /\ Rd > 0
  /\ At(m_all_physic_info, Idx).m_speed
       # At(m_all_physic_info, Idx + 1).m_speed
  /\ At(m_all_physic_info, Idx).m_steer
       # At(m_all_physic_info, Idx + 1).m_steer
  /\ anim[2] = At(m_all_physic_info, Idx).m_speed * tick_dt
  /\ anim[2] # anim[4]

\* C20: after a non-ended update() the front point is the pose just set
\* applied to (0, 0, kartLength / 2) (KartLength in units of 1 / 2); once a
\* tick has run, it is so in every state in which the node is visible.
C20_FrontPointFollowsPose ==
  LET current == [origin |-> m_xyz, rotation |-> m_rotation,
                  local |-> <<0, 0, KartLength>>]
  IN fault = "none" =>
       /\ (Ticked /\ ~gc.m_replay_end) => m_xyz_front = current
       /\ (m_visible /\ first_out # NoOut) => m_xyz_front = current

\* A tick strictly between two frames that differ in position and in
\* orientation, after an earlier tick: the front point is on the new pose.
C20_Witness ==
  /\ lastOp = "update" /\ ~gc.m_replay_end /\ fault = "none" /\ m_visible
  /\ Rd > 0 /\ tick_dt > 0
  /\ Origin(Idx) # Origin(Idx + 1) /\ Rotation(Idx) # Rotation(Idx + 1)
  /\ m_xyz # Scaled(Origin(Idx)) /\ m_rotation # RdDen * Rotation(Idx)
  /\ m_xyz_front.origin = m_xyz /\ m_xyz_front.rotation = m_rotation

\* C21: the three frame vectors have the same length, which is the number
\* of addReplayEvent calls made and the number of replay times the
\* controller was given, and the transform, the physics sample and the
\* event flags at one index are those of one recorded frame.
C21_ParallelArrays ==
  /\ Size(m_all_transform) = n_added
  /\ Size(m_all_physic_info) = n_added
  /\ Size(m_all_replay_events) = n_added
  /\ Size(gc.m_all_times) = n_added
  /\ \A i \in 0..(n_added - 1) :
       \E f \in SampleFrames :
         /\ At(m_all_transform, i) = f.trans
         /\ At(m_all_physic_info, i) = f.pi
         /\ At(m_all_replay_events, i) = f.kre

\* Three different frames recorded, and a non-ended tick run on them.
C21_Witness ==
  /\ n_added = 3 /\ N = 3 /\ Size(gc.m_all_times) = 3
  /\ Origin(0) # Origin(1) /\ Origin(1) # Origin(2) /\ Origin(0) # Origin(2)
  /\ lastOp = "update" /\ ~gc.m_replay_end /\ fault = "none" /\ Idx = 1

\* C22, in every state: once the shared index has been assigned (by
\* loadMaterial or any later call) it does not exceed the number of
\* materials; and right after a popTempMaterial() another one would change
\* neither the vector nor the set of deleted materials.
C22_IndexWithinVector ==
  /\ index_set => (0 <= m_shared_material_index
                    /\ m_shared_material_index <= Size(m_materials))
  /\ (mat_op = "popTempMaterial" /\ fault = "none") =>
        ~ENABLED (PopTempMaterial
                  /\ (m_materials' # m_materials \/ m_freed' # m_freed))

\* C22, in every popTempMaterial() with the index assigned: the materials
\* at the positions from the shared index on, and only those, are deleted
\* and leave the vector; those below stay, in their order; the index stays.
C22_PopStep ==
  (mat_op' = "popTempMaterial" /\ index_set) =>
    /\ Size(m_materials') = m_shared_material_index
    /\ \A k \in 1..m_shared_material_index : m_materials'[k] = m_materials[k]
    /\ m_shared_material_index' = m_shared_material_index
    /\ {f.id : f \in m_freed' \ m_freed}
         = {m_materials[k].id :
              k \in (m_shared_material_index + 1)..Size(m_materials)}
    /\ \A f \in m_freed' \ m_freed : f.by = "popTempMaterial"

\* C22: the shared index never exceeds the number of materials;
\* popTempMaterial() deletes exactly the materials at positions >= the
\* shared index, leaves those below unchanged and in order, and is
\* idempotent.
C22_SharedIndexAndPop == []C22_IndexWithinVector /\ [][C22_PopStep]_vars

\* A popTempMaterial() after loadMaterial that deleted two temporary
\* materials and kept a shared one.
C22_Witness ==
  /\ mat_op = "popTempMaterial" /\ fault = "none" /\ index_set
  /\ m_shared_material_index = 1 /\ Size(m_materials) = 1
  /\ Cardinality({f \in m_freed : f.by = "popTempMaterial"}) >= 2

\* C23, the part about temporaries: a material getMaterial created without
\* make_permanent is gone from the registry after the next
\* popTempMaterial().
C23_TemporaryGoneAfterPop ==
  (mat_op = "popTempMaterial" /\ fault = "none") => temp_new = {}

\* --------------------------------------- create-server screen: operations
\* The screen is called while it is the top of the screen stack: once
\* onUpdate() has pushed the networking lobby, no call reaches it.
NameError == "Name has to be between 4 and 30 characters long!"
PasswordError == "Incorrect characters in password!"

\* Values the user can turn the more-options spinner to.
SpinnerChoices(last) == {0, 1, last} \cap (0..last)

\* The calls of one createServer() leave no trace in the next call.
CallForgotten ==
  /\ sp_args' = NoCall
  /\ in_name' = NoText
  /\ in_password' = NoText

\* CreateServerScreen::init(), is_lan being NetworkConfig::get()->isLAN().
ScreenInit(is_lan) ==
  /\ ~lobby_pushed
  /\ m_supports_ai' = is_lan
  /\ m_info_widget' = ""
  /\ m_game_mode_widget' = m_prev_mode
  /\ m_more_options_spinner' =
       UpdateMoreOption(m_prev_mode, m_prev_value, is_lan,
                        m_max_players_widget, m_more_options_spinner)
  /\ screen_op' = "init"
  /\ CallForgotten
  /\ UNCHANGED <<remembered, m_max_players_widget, cfg_max_players, network>>
  /\ UNCHANGED <<kartvars, matvars>>

\* eventCallback, the cancel button of the options ribbon: the networking
\* is unset and the screen is left.
Cancel ==
  /\ ~lobby_pushed
  /\ screen_op' = "eventCallback"
  /\ CallForgotten
  /\ UNCHANGED <<remembered, m_supports_ai, widgets, cfg_max_players, network>>
  /\ UNCHANGED <<kartvars, matvars>>

\* eventCallback, the gamemode ribbon turned to selection.
SelectGameMode(selection) ==
  /\ ~lobby_pushed
  /\ m_game_mode_widget' = selection
  /\ m_prev_value' = 0
  /\ m_more_options_spinner' =
       UpdateMoreOption(selection, 0, m_supports_ai, m_max_players_widget,
                        m_more_options_spinner)
  /\ m_prev_mode' = selection
  /\ screen_op' = "eventCallback"
  /\ CallForgotten
  /\ UNCHANGED <<m_supports_ai, m_max_players_widget, m_info_widget,
                 cfg_max_players, network>>
  /\ UNCHANGED <<kartvars, matvars>>

\* eventCallback, the max_players spinner turned to value.
ChangeMaxPlayers(value) ==
  /\ ~lobby_pushed
  /\ m_max_players_widget' = value
  /\ IF m_supports_ai
     THEN /\ m_prev_value' = m_more_options_spinner.value
          /\ m_more_options_spinner' =
               UpdateMoreOption(m_game_mode_widget,
                                m_more_options_spinner.value, TRUE, value,
                                m_more_options_spinner)
     ELSE UNCHANGED <<m_prev_value, m_more_options_spinner>>
  /\ screen_op' = "eventCallback"
  /\ CallForgotten
  /\ UNCHANGED <<m_prev_mode, m_supports_ai, m_game_mode_widget,
                 m_info_widget, cfg_max_players, network>>
  /\ UNCHANGED <<kartvars, matvars>>

\* The more-options spinner turned to value; eventCallback has no branch
\* for this widget.
SpinMoreOptions(value) ==
  /\ ~lobby_pushed
  /\ m_more_options_spinner.visible
  /\ value \in SpinnerChoices(LastLabel(m_game_mode_widget, m_supports_ai,
                                        m_max_players_widget))
  /\ m_more_options_spinner' = [m_more_options_spinner EXCEPT !.value = value]
  /\ screen_op' = "spinner"
  /\ CallForgotten
  /\ UNCHANGED <<remembered, m_supports_ai, m_max_players_widget,
                 m_game_mode_widget, m_info_widget, cfg_max_players, network>>
  /\ UNCHANGED <<kartvars, matvars>>

\* CreateServerScreen::onUpdate
OnUpdate ==
  /\ ~lobby_pushed
  /\ lobby_pushed' = exist_host
  /\ screen_op' = "onUpdate"
  /\ CallForgotten
  /\ UNCHANGED <<remembered, m_supports_ai, widgets, cfg_max_players,
                 exist_host, joined_server>>
  /\ UNCHANGED <<kartvars, matvars>>

\* The server process is started and the server joined: the tail of
\* createServer() after both tests (built without USE_GRAPHICS_SERVER).
StartServer(name, max_players, pw) ==
  LET mode == m_game_mode_widget
      esi == m_more_options_spinner.value
      private_server == Utf8Size(pw) # 0
  IN /\ IF m_more_options_spinner.visible
        THEN /\ m_prev_mode' = mode
             /\ m_prev_value' = esi
             /\ sp_args' = [mode |-> mode, max_players |-> max_players,
                            more |-> MoreOption(mode, m_supports_ai, esi),
                            password |-> pw]
        ELSE /\ m_prev_mode' = 0
             /\ m_prev_value' = 0
             /\ sp_args' = [mode |-> mode, max_players |-> max_players,
                            more |-> <<>>, password |-> pw]
     /\ exist_host' = TRUE
     /\ joined_server' = [name |-> name, private |-> private_server]
     /\ UNCHANGED <<m_info_widget, lobby_pushed>>

\* CreateServerScreen::createServer(), reached from eventCallback by the
\* create button of the options ribbon; name_text and password_text are the
\* texts of the two text boxes.  The max_players spinner holds a value of
\* MinPlayers..MaxPlayersDefault, so the assert on max_players passes.
CreateServer(name_text, password_text) ==
  LET name == Trim(name_text)
      max_players == m_max_players_widget
  IN /\ ~lobby_pushed
     /\ screen_op' = "createServer"
     /\ in_name' = name_text
     /\ in_password' = password_text
     /\ IF NameRejected(name)
        THEN /\ m_info_widget' = NameError
             /\ sp_args' = NoCall
             /\ UNCHANGED <<remembered, cfg_max_players, network>>
        ELSE /\ cfg_max_players' = max_players
             /\ IF PasswordRejected(password_text)
                THEN /\ m_info_widget' = PasswordError
                     /\ sp_args' = NoCall
                     /\ UNCHANGED <<remembered, network>>
                ELSE StartServer(name, max_players, password_text)
     /\ UNCHANGED <<m_supports_ai, m_max_players_widget, m_game_mode_widget,
                    m_more_options_spinner>>
     /\ UNCHANGED <<kartvars, matvars>>

NextScreen ==
  \/ \E is_lan \in BOOLEAN : ScreenInit(is_lan)
  \/ Cancel
  \/ \E selection \in GameModes : SelectGameMode(selection)
  \/ \E value \in MinPlayers..MaxPlayersDefault : ChangeMaxPlayers(value)
  \/ \E value \in {0, 1, MaxPlayersDefault - 2, GpTracks} :
       SpinMoreOptions(value)
  \/ OnUpdate
  \/ \E name_text \in NameTexts, password_text \in PasswordTexts :
       CreateServer(name_text, password_text)

SpecCreateServer == Init /\ [][NextScreen]_vars

\* C24: createServer() starts a server process and registers a joined
\* server only when the trimmed name has 4 to 30 characters and the
\* password has at most 255 characters, all of [a-zA-Z0-9_]; when the name
\* or the password is rejected, the info label shows an error, no process
\* is started, no host is created, the joined server stays as it was and
\* m_prev_mode and m_prev_value keep their values.
C24_NameOk ==
  /\ in_name'.body >= MinNameSize
  /\ in_name'.body <= MaxNameSize
C24_PasswordOk ==
  /\ Chars(in_password') <= MaxPasswordSize
  /\ in_password'.ok = Chars(in_password')
C24_CreateStep ==
  screen_op' = "createServer" =>
    /\ (sp_args' # NoCall \/ joined_server' # joined_server
          \/ (exist_host' /\ ~exist_host))
         => (C24_NameOk /\ C24_PasswordOk)
    /\ ~(C24_NameOk /\ C24_PasswordOk) =>
         /\ m_info_widget' \in {NameError, PasswordError}
         /\ sp_args' = NoCall
         /\ exist_host' = exist_host
         /\ joined_server' = joined_server
         /\ m_prev_mode' = m_prev_mode
         /\ m_prev_value' = m_prev_value
C24_CreateServerValidates == [][C24_CreateStep]_vars
\* A call was rejected for its password alone while the spinner showed a
\* value other than the remembered one.
C24_Witness ==
  /\ screen_op = "createServer"
  /\ in_name = NameText(1, MaxNameSize, 1)
  /\ in_password = PasswordText(MaxPasswordSize + 1, 0, 0)
  /\ m_info_widget = PasswordError
  /\ sp_args = NoCall
  /\ ~exist_host
  /\ m_prev_mode = 2
  /\ m_prev_value = 0
  /\ m_more_options_spinner = [visible |-> TRUE, value |-> 1]
====
